---- MODULE Spec2Model ----
(***************************************************************************)
(* Model of testbeam_analysis/tools/simulate_data.py: the Monte-Carlo      *)
(* telescope simulator SimulateData and its jitted charge-sharing helpers. *)
(*                                                                         *)
(* Units.  Lengths are integer micrometres, charges integer electrons,     *)
(* angles integer milliradians, efficiencies integer percent.  Random      *)
(* draws are nondeterministic choices from small sets: a normal draw is    *)
(* mean + u * sigma for a standard deviate u in Deviates.                  *)
(*                                                                         *)
(* math.erf is modelled by its values on a grid of quarter-sigma steps,    *)
(* in units of 1/ErfScale (ErfTab); a charge fraction is the product of    *)
(* two axis integrals and is kept in units of 1/FracOne.                   *)
(***************************************************************************)
EXTENDS Integers, Sequences, FiniteSets, TLC

\* ------------------------------------------------------------------ bounds
MaxEvents == 3      \* n_events and chunk_size range over 1..MaxEvents
MaxDev == 1         \* standard deviates of a normal draw: -MaxDev..MaxDev
MaxRounds == 2      \* rounds of the theta resampling loop that are followed

\* --------------------------------------------------------------- constants
Pi_mrad == 3141             \* floor(1000 * pi): theta/1000 > pi  <=>  theta > Pi_mrad
Uint16 == 65536             \* 2^16, the width of the charge/column/row fields
ChargeLSB == 10             \* one stored charge unit is 10 electrons
ElectronsPerUm == 77        \* mpv = 77 * thickness
BufferPerSeed == 5          \* result buffer rows per seed hit
ErfScale == 1000            \* resolution of the erf table
ZSteps == 4                 \* the erf table is sampled every 1/4 sigma
ZMax == 14                  \* erf(3.5 / sqrt 2) rounds to 1 at 1/1000
DoubleBits == 53            \* mantissa bits of a double (a Python float)
kB_e10 == 861733            \* boltzman_constant 8.6173324e-5 in units of 1e-10
FracOne == 4 * ErfScale * ErfScale      \* the fraction 1. (the code's 1/4 * dx * dy)
MinFraction == FracOne \div 1000        \* min_fraction = 1e-3

Deviates == (0 - MaxDev)..MaxDev

\* ------------------------------------------------------------ arithmetic
Abs(x) == IF x < 0 THEN 0 - x ELSE x

Sign(x) == IF x < 0 THEN 0 - 1 ELSE IF x > 0 THEN 1 ELSE 0

\* floor of the rational a / b, b > 0
FloorDiv(a, b) == IF a >= 0 THEN a \div b ELSE 0 - ((0 - a + b - 1) \div b)

\* C / numpy float -> int conversion of the rational a / b: truncation toward zero
TruncDiv(a, b) == IF a >= 0 THEN a \div b ELSE 0 - ((0 - a) \div b)

\* np.around of the rational a / b (b > 0): round half to even
RoundHalfEven(a, b) ==
    LET f == FloorDiv(a, b)
        r == a - f * b
    IN  IF 2 * r < b THEN f
        ELSE IF 2 * r > b THEN f + 1
        ELSE IF f % 2 = 0 THEN f ELSE f + 1

\* nearest integer to a / b (b > 0), halves away from zero
RoundNearest(a, b) == Sign(a) * ((2 * Abs(a) + b) \div (2 * b))

RECURSIVE ISqrtBits(_, _, _)
\* integer square root by bisection on bit b
ISqrtBits(v, r, b) ==
    IF b = 0 THEN r
    ELSE LET c == r + b
         IN  ISqrtBits(v, IF c * c <= v THEN c ELSE r, b \div 2)

ISqrt(v) == ISqrtBits(v, 0, 32768)

\* Let(e, F) is F(e), with e evaluated once
Let(e, F(_)) == CHOOSE r \in {F(x) : x \in {e}} : TRUE

RECURSIVE SumSeq(_)
SumSeq(s) == IF s = <<>> THEN 0 ELSE Head(s) + SumSeq(Tail(s))

RECURSIVE Repeat(_, _)
\* np.repeat(values, counts)
Repeat(values, counts) ==
    IF values = <<>> THEN <<>>
    ELSE [i \in 1..Head(counts) |-> Head(values)] \o Repeat(Tail(values), Tail(counts))

\* boolean-mask indexing a[selection]
RECURSIVE Mask(_, _)
Mask(a, selection) ==
    IF a = <<>> THEN <<>>
    ELSE (IF Head(selection) THEN <<Head(a)>> ELSE <<>>) \o Mask(Tail(a), Tail(selection))

\* ------------------------------------------------------- diffusion model
\* math.erf(z / sqrt 2) at z = k / ZSteps, k = 0..ZMax, rounded to 1/ErfScale
ErfTab == <<0, 197, 383, 547, 683, 789, 866, 920, 954, 976, 988, 994, 997, 999, 1000>>

\* sqrt(2 * temperature / bias * boltzman_constant) in units of 1e-5
SqrtDiffusion(temperature, bias) == ISqrt((2 * temperature * kB_e10) \div bias)

\* _calc_sigma_diffusion(distance, temperature, bias) in units of 1e-5 um
CalcSigmaDiffusion(distance, temperature, bias) ==
    distance * SqrtDiffusion(temperature, bias)

\* sigma of _calc_charge_fraction in units of 1e-5 um; cc in percent
ChargeSigma(position_z, temperature, bias, digitization_sigma_cc) ==
    (CalcSigmaDiffusion(position_z, temperature, bias) * digitization_sigma_cc) \div 100

\* math.erf((a - mu) / sqrt(2 * sigma ** 2)) in units of 1/ErfScale
Erf(d, sigma) ==
    LET zq == RoundNearest(ZSteps * d * 100000, sigma)
        k == IF Abs(zq) > ZMax THEN ZMax ELSE Abs(zq)
    IN  Sign(zq) * ErfTab[k + 1]

\* one axis of _bivariante_normal_cdf_limits: erf(a2 - mu) - erf(a1 - mu)
AxisIntegral(a1, a2, mu, sigma) == Erf(a2 - mu, sigma) - Erf(a1 - mu, sigma)

\* _bivariante_normal_cdf_limits, in units of 1/FracOne
BivarianteNormalCdfLimits(a1, a2, b1, b2, mu1, mu2, sigma) ==
    AxisIntegral(a1, a2, mu1, sigma) * AxisIntegral(b1, b2, mu2, sigma)

\* lines 110 and 92: the sigma _calc_charge_fraction computes from the
\* arguments P of a call of _create_charge_sharing_hits
SeedSigma(P) ==
    ChargeSigma(P.thickness \div 2, P.temperature, P.bias, P.digitization_sigma_cc)

\* The two axis integrals of _calc_charge_fraction for the pixel at index
\* (pixel_index_x, pixel_index_y) relative to the seed; P holds the arguments
\* _create_charge_sharing_hits was called with.  sigma = 0 returns 1.
ChargeFractionAxes(P, pixel_index_x, pixel_index_y) ==
    Let(SeedSigma(P),
        LAMBDA sigma :
            IF sigma = 0 THEN <<2 * ErfScale, 2 * ErfScale>>
            ELSE <<AxisIntegral((P.pixel_size_x \div 2) * (2 * pixel_index_x - 1),
                                (P.pixel_size_x \div 2) * (2 * pixel_index_x + 1),
                                P.relative_position[1], sigma),
                   AxisIntegral((P.pixel_size_y \div 2) * (2 * pixel_index_y - 1),
                                (P.pixel_size_y \div 2) * (2 * pixel_index_y + 1),
                                P.relative_position[2], sigma)>>)

\* _calc_charge_fraction in units of 1/FracOne
CalcChargeFraction(P, pixel_index_x, pixel_index_y) ==
    Let(ChargeFractionAxes(P, pixel_index_x, pixel_index_y), LAMBDA a : a[1] * a[2])

\* charge * a[1] * a[2] / FracOne, rounded down to whole electrons
ScaleCharge(charge, a) ==
    (((charge * a[1]) \div (2 * ErfScale)) * a[2]
        + (((charge * a[1]) % (2 * ErfScale)) * a[2]) \div (2 * ErfScale)) \div (2 * ErfScale)

\* fraction * charge
FractionCharge(P, pixel_index_x, pixel_index_y) ==
    Let(ChargeFractionAxes(P, pixel_index_x, pixel_index_y),
        LAMBDA a : ScaleCharge(P.charge, a))

\* "ADD HIT": the write result_hits[index] = ..., index += 1, n_hits += 1.
\* A write at index >= capacity falls outside the buffer: it is not part of
\* the returned array and is recorded in oob.
AddHit(P, s, actual_column, actual_row) ==
    [s EXCEPT !.hits = IF s.index < P.capacity
                       THEN Append(@, <<actual_column, actual_row,
                                        FractionCharge(P, actual_column - P.column, actual_row - P.row)>>)
                       ELSE @,
              !.oob = @ \/ s.index >= P.capacity,
              !.index = @ + 1,
              !.n_hits = @ + 1]

RECURSIVE ScanRows(_, _, _, _, _)
\* One row loop of _create_charge_sharing_hits in column actual_column,
\* from actual_row in direction dir (+1: range(row, max_row); -1: range(row - 1, 0, -1))
ScanRows(P, s, actual_column, actual_row, dir) ==
    IF (dir = 1 /\ actual_row >= P.max_row) \/ (dir = 0 - 1 /\ actual_row <= 0) THEN s
    ELSE Let(CalcChargeFraction(P, actual_column - P.column, actual_row - P.row),
             LAMBDA fraction :
                IF fraction < MinFraction
                THEN [s EXCEPT !.total_fraction = @ + fraction]
                ELSE Let(AddHit(P, [s EXCEPT !.total_fraction = @ + fraction],
                                actual_column, actual_row),
                         LAMBDA s2 :
                            IF s2.total_fraction >= FracOne - MinFraction THEN s2
                            ELSE ScanRows(P, s2, actual_column, actual_row + dir, dir)))

RECURSIVE ScanColumns(_, _, _, _)
\* One column loop of _create_charge_sharing_hits from actual_column in
\* direction dir (+1: range(column, max_column); -1: range(column - 1, 0, -1))
ScanColumns(P, s, actual_column, dir) ==
    IF (dir = 1 /\ actual_column >= P.max_column) \/ (dir = 0 - 1 /\ actual_column <= 0) THEN s
    ELSE IF s.total_fraction >= FracOne - MinFraction
            \/ CalcChargeFraction(P, actual_column - P.column, 0) < MinFraction THEN s
    ELSE Let(ScanRows(P, s, actual_column, P.row, 1),
             LAMBDA up :
                Let(ScanRows(P, up, actual_column, P.row - 1, 0 - 1),
                    LAMBDA down : ScanColumns(P, down, actual_column + dir, dir)))

\* _create_charge_sharing_hits: result_hits so far is s.hits, index is s.index
CreateChargeSharingHits(P, s) ==
    Let(ScanColumns(P, [s EXCEPT !.total_fraction = 0, !.n_hits = 0], P.column, 1),
        LAMBDA plus : ScanColumns(P, plus, P.column - 1, 0 - 1))

\* relative_position[actual_index] as _add_charge_sharing_hits reads it.  The
\* caller passes relative_position.T, an array of shape (2, n) over the memory
\* x0 y0 x1 y1 ...; row actual_index of it starts at memory element
\* actual_index and steps by two elements, and numba checks no bounds.
\* memory: the n (x, y) pairs; oob_read: what a read past the memory returns.
FlatElement(memory, j, oob_read) ==
    IF j >= 2 * Len(memory) THEN oob_read
    ELSE memory[(j \div 2) + 1][(j % 2) + 1]

RelativePositionOf(memory, actual_index, oob_read) ==
    <<FlatElement(memory, actual_index, oob_read),
      FlatElement(memory, actual_index + 2, oob_read)>>

\* line 192: the call passes digitization_sigma_cc = 1. (in percent)
CallSigmaCC == 100

\* the arguments of the call of _create_charge_sharing_hits for seed hit
\* actual_index (0-based)
SeedCallArguments(A, actual_index) ==
    [relative_position |-> RelativePositionOf(A.relative_position, actual_index, A.oob_read),
     column |-> A.hits_digits[actual_index + 1][1],
     row |-> A.hits_digits[actual_index + 1][2],
     charge |-> A.hits_digits[actual_index + 1][3],
     max_column |-> A.max_column,
     max_row |-> A.max_row,
     thickness |-> A.thickness,
     pixel_size_x |-> A.pixel_size_x,
     pixel_size_y |-> A.pixel_size_y,
     temperature |-> A.temperature,
     bias |-> A.bias,
     digitization_sigma_cc |-> CallSigmaCC,
     capacity |-> BufferPerSeed * Len(A.hits_digits)]

RECURSIVE AddChargeSharingLoop(_, _, _, _)
\* the loop of _add_charge_sharing_hits over the seed hits, from actual_index (0-based)
AddChargeSharingLoop(A, s, n_hits_per_seed_hit, actual_index) ==
    IF actual_index >= Len(A.hits_digits) THEN
        [hits |-> s.hits, n_hits_per_seed_hit |-> n_hits_per_seed_hit,
         result_index |-> s.index, oob |-> s.oob]
    ELSE Let(Let(SeedCallArguments(A, actual_index),
                 LAMBDA P : CreateChargeSharingHits(P, s)),
             LAMBDA s1 : AddChargeSharingLoop(A, s1, Append(n_hits_per_seed_hit, s1.n_hits),
                                              actual_index + 1))

\* _add_charge_sharing_hits: (result_hits[:result_index], n_hits_per_seed_hit)
AddChargeSharingHits(A) ==
    AddChargeSharingLoop(A, [total_fraction |-> 0, hits |-> <<>>, index |-> 0,
                             n_hits |-> 0, oob |-> FALSE], <<>>, 0)

\* ------------------------------------------------- SimulateData._digitize_hits
\* np.around(x / pixel_size - 0.5) + 1 for a pixel size of either sign
PixelIndex(x, pixel_size) ==
    IF pixel_size > 0 THEN RoundHalfEven(2 * x - pixel_size, 2 * pixel_size) + 1
    ELSE RoundHalfEven(pixel_size - 2 * x, 0 - 2 * pixel_size) + 1

\* lines 340-344: local positions, seed pixels and deposited charge
LocalHits(dut_hits, offset) ==
    [i \in 1..Len(dut_hits) |-> <<dut_hits[i][1] - offset[1], dut_hits[i][2] - offset[2]>>]

SeedDigits(local_hits, pixel_size, charge) ==
    [i \in 1..Len(local_hits) |->
        <<PixelIndex(local_hits[i][1], pixel_size[1]),
          PixelIndex(local_hits[i][2], pixel_size[2]),
          charge[i]>>]

\* line 350: dut_hits - (dut_hits_digits[:, :2] - 0.5) * pixel_size
RelativePosition(local_hits, digits, pixel_size) ==
    [i \in 1..Len(local_hits) |->
        <<local_hits[i][1] - digits[i][1] * pixel_size[1] + pixel_size[1] \div 2,
          local_hits[i][2] - digits[i][2] * pixel_size[2] + pixel_size[2] \div 2>>]

\* the arguments of the call of _add_charge_sharing_hits (lines 351-359)
ChargeSharingArguments(c, d, local_hits, seeds, oob_read) ==
    [relative_position |-> RelativePosition(local_hits, seeds, c.dut_pixel_size[d]),
     hits_digits |-> seeds,
     max_column |-> c.dut_n_pixel[d][1],
     max_row |-> c.dut_n_pixel[d][2],
     thickness |-> c.dut_thickness[d],
     pixel_size_x |-> c.dut_pixel_size[d][1],
     pixel_size_y |-> c.dut_pixel_size[d][2],
     temperature |-> c.temperature,
     bias |-> c.dut_bias[d],
     oob_read |-> oob_read]

\* lines 349-360: cluster creation; the result is [digits, events, oob] and,
\* for each seed hit, what its cluster search was called with and returned:
\* sigma (units of 1e-5 um), relative_position and n_hits_per_seed_hit
ClusterStage(c, d, event_number, local_hits, seeds, oob_read) ==
    IF c.digitization_charge_sharing THEN
        Let(ChargeSharingArguments(c, d, local_hits, seeds, oob_read),
            LAMBDA A :
              Let(AddChargeSharingHits(A),
                  LAMBDA r : [digits |-> r.hits,
                              events |-> Repeat(event_number, r.n_hits_per_seed_hit),
                              oob |-> r.oob,
                              sigma |-> [i \in 1..Len(seeds) |->
                                            SeedSigma(SeedCallArguments(A, i - 1))],
                              relative_position |->
                                  [i \in 1..Len(seeds) |->
                                      SeedCallArguments(A, i - 1).relative_position],
                              n_hits_per_seed_hit |-> r.n_hits_per_seed_hit]))
    ELSE [digits |-> seeds, events |-> event_number, oob |-> FALSE, sigma |-> <<>>,
          relative_position |-> <<>>, n_hits_per_seed_hit |-> <<>>]

\* a selection that forgets the upper limits of lines 365-367
InsideDutNoUpperLimit(c, d, digit) ==
    digit[1] > 0 /\ digit[2] > 0

\* lines 363-367: mask hits outside of the DUT
InsideDut(c, d, digit) ==
    /\ digit[1] > 0 /\ digit[1] <= c.dut_n_pixel[d][1]
    /\ digit[2] > 0 /\ digit[2] <= c.dut_n_pixel[d][2]

MaskOutside(c, d, D) ==
    LET selection == [i \in 1..Len(D.digits) |-> InsideDut(c, d, D.digits[i])]
    IN  [digits |-> Mask(D.digits, selection), events |-> Mask(D.events, selection),
         oob |-> D.oob]

RECURSIVE Pow2Mod(_, _)
\* 2^e mod m
Pow2Mod(e, m) == IF e = 0 THEN 1 % m ELSE (2 * Pow2Mod(e - 1, m)) % m

\* the remainder r of a division by 100 as the distance to the nearest
\* multiple of 100
Centered(r) == IF r > 50 THEN r - 100 ELSE r

RECURSIVE Halvings(_)
\* i with p / 100 in [2^-(i+1), 2^-i), for 1 <= p < 100: the double nearest
\* to p / 100 is a multiple of 2^-(DoubleBits + i)
Halvings(p) == IF 2 * p >= 100 THEN 0 ELSE 1 + Halvings(2 * p)

\* line 373, 1. - efficiency in double arithmetic for the efficiency
\* p / 100.: the result minus (100 - p) / 100, in units of 2^-DoubleBits / 100.
\* The literal p / 100. is the nearest multiple of 2^-(DoubleBits + i); the
\* difference is the nearest multiple of 2^-DoubleBits, a tie going to the
\* even one.
OneMinusError(p) ==
    IF p = 0 \/ p = 100 THEN 0
    ELSE LET i == Halvings(p)
             rr == Centered((p * Pow2Mod(DoubleBits + i, 100)) % 100)
             a == ((100 - p) * Pow2Mod(DoubleBits, 200)) % 200
             g == a % 100
             q == g * Pow2Mod(i, 100) + rr
             half == 50 * Pow2Mod(i, 100)
         IN  IF q < half THEN 0 - g
             ELSE IF q > half THEN 100 - g
             ELSE IF a < 100 THEN 0 - g ELSE 100 - g

RECURSIVE Pow2Below(_, _)
\* the largest c * 2^j < k, for k >= 2 (called with c = 1)
Pow2Below(k, c) == IF 2 * c >= k THEN c ELSE Pow2Below(k, 2 * c)

\* a product that falls short of the integer k >= 1 by short units of
\* 2^-DoubleBits / 100 is rounded to the double k: the doubles below k are
\* 2^-DoubleBits * 2^(j+1) apart for k in (2^j, 2^(j+1)], and a tie goes to k
RoundsUpTo(k, short) ==
    IF k = 1 THEN 2 * short <= 100 ELSE short <= 100 * Pow2Below(k, 1)

\* line 373: int(n * (1. - efficiency)) in double arithmetic, efficiency in
\* percent.  The product is the exact n * (100 - p) / 100 plus n times the
\* error of 1. - efficiency; it is truncated below an integer only when the
\* exact product is that integer and the rounded product stays under it.
NInefficientHit(n, efficiency) ==
    LET exact == (n * (100 - efficiency)) \div 100
        t == OneMinusError(efficiency)
    IN  IF (n * (100 - efficiency)) % 100 # 0 \/ t >= 0 \/ exact = 0 THEN exact
        ELSE IF RoundsUpTo(exact, n * (0 - t)) THEN exact
        ELSE exact - 1

\* lines 370-377: inefficient is hit_indices[:n_inefficient_hit] after the shuffle
MaskInefficient(D, inefficient) ==
    LET selection == [i \in 1..Len(D.digits) |-> i \notin inefficient]
    IN  [D EXCEPT !.digits = Mask(D.digits, selection), !.events = Mask(D.events, selection)]

\* line 380: add noise to the charge
AddNoise(D, noise) ==
    [D EXCEPT !.digits = [i \in 1..Len(D.digits) |->
                             <<D.digits[i][1], D.digits[i][2], D.digits[i][3] + noise[i]>>]]

\* a threshold cut that also deletes the hits at the threshold
MaskThresholdStrict(c, d, D) ==
    LET selection == [i \in 1..Len(D.digits) |-> D.digits[i][3] > c.dut_threshold[d]]
    IN  [D EXCEPT !.digits = Mask(D.digits, selection), !.events = Mask(D.events, selection)]

\* lines 383-384: delete hits below threshold
MaskThreshold(c, d, D) ==
    LET selection == [i \in 1..Len(D.digits) |-> D.digits[i][3] >= c.dut_threshold[d]]
    IN  [D EXCEPT !.digits = Mask(D.digits, selection), !.events = Mask(D.events, selection)]

\* ------------------------------------------------------------ random draws
\* np.random.normal(mean, sigma): mean + u * sigma
Normal(mean, sigma) == {mean + u * sigma : u \in Deviates}

\* line 394-395: normal(...).astype(np.int), negative counts set to 0
TrackCounts(c) ==
    {IF t < 0 THEN 0 ELSE t :
        t \in {TruncDiv(v, 1) : v \in Normal(c.tracks_per_event, c.tracks_per_event_sigma)}}

\* lines 288-298: track x and y at z = 0
TrackPositionsX(c) ==
    IF c.beam_position_sigma[1] # 0
    THEN Normal(c.beam_position[1], c.beam_position_sigma[1])
    ELSE {c.beam_position[1]}

TrackPositionsY(c) ==
    IF c.beam_position_sigma[2] # 0
    THEN Normal(c.beam_position[2], c.beam_position_sigma[1])
    ELSE {c.beam_position[2]}

\* lines 300-303: theta in mrad
TrackAnglesTheta(c) ==
    IF c.beam_angle_sigma # 0
    THEN {Abs(t) : t \in Normal(c.beam_angle, c.beam_angle_sigma)}
    ELSE {c.beam_angle}

\* lines 307-308: the redraw normal(beam_angle, beam_angle_sigma) is taken in
\* rad, so in mrad it is 1000 times the configured numbers
ThetaRedraws(c) == {1000 * t : t \in Normal(c.beam_angle, c.beam_angle_sigma)}

\* a loop condition that forgets the angles below 0
ThetaAbovePi(theta) == theta > Pi_mrad

\* line 306: the condition of the resampling loop
ThetaOutOfRange(theta) == theta > Pi_mrad \/ theta < 0

\* line 310: phi = random() * 2 pi, here one of the axis directions k * pi / 2
PhiDirections == {<<1, 0>>, <<0, 1>>, <<0 - 1, 0>>, <<0, 0 - 1>>}

\* the grid index i of np.random.choice(charge): x = i / 10
ChargeGrid == {10, 99}

\* line 417-423: charge = x * mpv, mpv = 77 * thickness
ChargeDeposited(c, d, grid_index) == (grid_index * ElectronsPerUm * c.dut_thickness[d]) \div 10

\* what a read past the end of the relative_position memory may return
OobReadValues == {0 - 1000, 0, 25}

\* The values the read of position[1] may return in the calls for plane d.
\* With one hit, row 0 of relative_position.T has one element and position[1]
\* is read past its end: the read returns whatever lies there, or, in a
\* build that takes the row as contiguous, the next element of the memory,
\* which is the hit's own y offset.  With more hits every read is inside
\* the memory.
OobReads(c, d, dut_hits) ==
    IF c.digitization_charge_sharing /\ Len(dut_hits) = 1
    THEN OobReadValues \cup
         {RelativePosition(LocalHits(dut_hits, c.offsets[d]),
                           SeedDigits(LocalHits(dut_hits, c.offsets[d]),
                                      c.dut_pixel_size[d], <<0>>),
                           c.dut_pixel_size[d])[1][2]}
    ELSE {0}

\* 1000 * tan(theta / 1000) for the angles of the configurations below,
\* which are within a few mrad of a multiple of pi: tan has the period pi,
\* and tan(theta) = theta near 0
TanMilli(theta) ==
    IF 2 * (theta % Pi_mrad) < Pi_mrad THEN theta % Pi_mrad
    ELSE (theta % Pi_mrad) - Pi_mrad

\* lines 326-329: r * sin(theta) = z * tan(theta)
Intersection(z_position, x, y, theta, phi) ==
    <<x + TruncDiv(z_position * TanMilli(theta), 1000) * phi[1],
      y + TruncDiv(z_position * TanMilli(theta), 1000) * phi[2]>>

\* line 262 and the uint16 'charge' field: charge / 10. converted to uint16.
\* A value outside 0..65535 has no defined conversion: builds wrap or saturate.
Uint16Cast(q) ==
    LET v == TruncDiv(q, ChargeLSB)
    IN  IF v >= 0 /\ v < Uint16 THEN {v}
        ELSE {v % Uint16, IF v < 0 THEN 0 ELSE Uint16 - 1}

SubsetsOfSize(S, k) == {T \in SUBSET S : Cardinality(T) = k}

\* ----------------------------------------------------------- configurations
PerDut(n, v) == [d \in 1..n |-> v]

\* set_std_settings, scaled down to small planes: the attributes of a
\* SimulateData object plus the arguments of create_data_and_store
Settings(n_duts, n_events, chunk_size) ==
    [n_duts |-> n_duts,
     z_positions |-> [d \in 1..n_duts |-> (d - 1) * 10000],
     offsets |-> PerDut(n_duts, <<0, 0>>),
     temperature |-> 300,
     beam_position |-> <<75, 75>>,
     beam_position_sigma |-> <<0, 0>>,
     beam_angle |-> 0,
     beam_angle_sigma |-> 0,
     tracks_per_event |-> 1,
     tracks_per_event_sigma |-> 0,
     dut_bias |-> PerDut(n_duts, 50),
     dut_thickness |-> PerDut(n_duts, 100),
     dut_threshold |-> PerDut(n_duts, 0),
     dut_noise |-> PerDut(n_duts, 0),
     dut_pixel_size |-> PerDut(n_duts, <<50, 50>>),
     dut_n_pixel |-> PerDut(n_duts, <<3, 3>>),
     dut_efficiencies |-> PerDut(n_duts, 100),
     digitization_charge_sharing |-> FALSE,
     digitization_sigma_cc |-> 135,
     n_events |-> n_events,
     chunk_size |-> chunk_size]

\* Runs over several chunks of one plane, and over one or two chunks of two
\* planes: one track per event at the plane centre, a valid or an invalid
\* mean beam angle, with and without charge sharing
RunConfigs ==
    {[Settings(IF n <= 2 /\ k <= 2 THEN 2 ELSE 1, n, k)
         EXCEPT !.beam_angle = a, !.digitization_charge_sharing = cs] :
        n \in 1..MaxEvents, k \in 1..MaxEvents, a \in {0, 4000, 0 - 1}, cs \in BOOLEAN}

\* Two events of one track on one plane, the tracks spread over pixel
\* boundaries, the sensor edges and the outside of the sensor
PositionConfigs ==
    {[Settings(1, 2, 2) EXCEPT !.beam_position = p, !.beam_position_sigma = <<50, 50>>,
                               !.digitization_charge_sharing = cs] :
        p \in {<<50, 100>>, <<0, 75>>, <<125, 175>>}, cs \in BOOLEAN}

\* One event with a spread number of tracks, from none at all
CountConfigs ==
    {[Settings(1, 1, 1) EXCEPT !.tracks_per_event_sigma = 1,
                               !.digitization_charge_sharing = cs] : cs \in BOOLEAN}

\* One or two tracks within 1 um of a pixel boundary or of the sensor edge,
\* for several thicknesses, temperatures and configured correction factors
SharingConfigs ==
    {[Settings(1, 1, k) EXCEPT !.beam_position = p, !.beam_position_sigma = <<1, 1>>,
                               !.dut_thickness = PerDut(1, th),
                               !.temperature = t,
                               !.digitization_sigma_cc = cc,
                               !.digitization_charge_sharing = TRUE] :
        k \in 1..2, p \in {<<49, 99>>, <<1, 75>>},
        th \in {0, 100}, t \in {0, 300}, cc \in {100, 135, 200}}

\* Thickness, noise, threshold and efficiency of a plane without charge sharing
ChargeConfigs ==
    {[Settings(1, 1, k) EXCEPT !.dut_thickness = PerDut(1, th),
                               !.dut_noise = PerDut(1, noise),
                               !.dut_threshold = PerDut(1, thr),
                               !.dut_efficiencies = PerDut(1, eff)] :
        k \in 1..2, th \in {100, 1000}, noise \in {0, 50},
        thr \in {0 - 100, 0, 7700}, eff \in {0, 50, 100}}

\* Planes with a non-positive thickness, pixel pitch or pixel count
DegenerateConfigs ==
    {[Settings(1, 1, 1) EXCEPT !.dut_thickness = PerDut(1, th),
                               !.dut_pixel_size = PerDut(1, ps),
                               !.dut_n_pixel = PerDut(1, np)] :
        th \in {0, 0 - 100, 100}, ps \in {<<50, 50>>, <<0 - 50, 0 - 50>>},
        np \in {<<3, 3>>, <<0, 0>>}}

\* A thick plane of 4 x 4 pixels with a pitch of half the diffusion sigma
\* (20 um at 1244 um thickness), hit at the centre of pixel (2, 2) or (1, 1)
WideClusterConfigs ==
    {[Settings(1, 1, k) EXCEPT !.beam_position = p,
                               !.dut_thickness = PerDut(1, 1244),
                               !.dut_pixel_size = PerDut(1, <<10, 10>>),
                               !.dut_n_pixel = PerDut(1, <<4, 4>>),
                               !.digitization_charge_sharing = TRUE] :
        k \in 1..2, p \in {<<15, 15>>, <<5, 5>>}}

\* Beam angles spread by a few mrad around 0 and around pi, and by more than pi
AngleConfigs ==
    {[Settings(2, 1, 1) EXCEPT !.beam_angle = a[1], !.beam_angle_sigma = a[2]] :
        a \in {<<0, 1>>, <<1, 1>>, <<0, 4000>>, <<Pi_mrad, 1>>}}

\* One track with different position sigmas in x and y, one of them 0 or not
AxisConfigs ==
    {[Settings(1, 1, 1) EXCEPT !.beam_position_sigma = sigma] :
        sigma \in {<<0, 50>>, <<50, 0>>, <<25, 50>>}}

\* One event of five tracks at the plane centre, with an efficiency of
\* 0.5 or 0.8
EfficiencyConfigs ==
    {[Settings(1, 1, 1) EXCEPT !.tracks_per_event = 5,
                               !.dut_efficiencies = PerDut(1, eff)] : eff \in {50, 80}}

\* Two chunks of one event of two tracks, 1 um from a pixel corner, with
\* charge sharing
ChunkedSharingConfigs ==
    {[Settings(1, 2, 1) EXCEPT !.tracks_per_event = 2,
                               !.beam_position = <<49, 99>>,
                               !.digitization_charge_sharing = TRUE]}

Configs ==
    RunConfigs \cup PositionConfigs \cup SharingConfigs \cup ChargeConfigs
        \cup DegenerateConfigs \cup AngleConfigs \cup CountConfigs \cup WideClusterConfigs
        \cup AxisConfigs \cup EfficiencyConfigs \cup ChunkedSharingConfigs

\* -------------------------------------------------------------------- state
VARIABLES
    cfg,            \* the settings and the arguments of create_data_and_store
    pc,             \* where create_data_and_store is
    chunk_index,    \* the chunk loop's counter
    dut_index,      \* the plane loop's counter (1-based)
    output_files,   \* per plane: "none", "open" or "closed"
    hit_tables,     \* per plane: the records appended to the Hits table
    chunk,          \* the data of the chunk being created
    rng_calls,      \* the number of np.random calls made so far
    n_simulated,    \* the number of events _create_data was asked for so far
    np_random,      \* the state of the process-wide generator behind np.random
    instances       \* the SimulateData objects of the process and their runs

vars == <<cfg, pc, chunk_index, dut_index, output_files, hit_tables, chunk,
          rng_calls, n_simulated, np_random, instances>>

\* a SimulateData object that is not constructed yet; random_seed is <<>> for
\* None and <<s>> for the seed s
NoInstance ==
    [constructed |-> FALSE, random_seed |-> <<>>, ran |-> FALSE,
     n_events |-> 0, chunk_size |-> 0, started_at |-> 0,
     status |-> "none", hit_tables |-> <<>>]

NoInstances == [i \in 1..2 |-> NoInstance]

NoChunk ==
    [n_tracks_per_event |-> <<>>, event_number |-> <<>>,
     x |-> <<>>, y |-> <<>>, theta |-> <<>>, rounds |-> 0, hits |-> <<>>, stages |-> <<>>]

\* a chunk loop that numbers the events of every chunk from 0
StartEventNumberZero(c, index) == 0

\* line 255: start_event_number = chunk_index * chunk_size
StartEventNumber(c, index) == index * c.chunk_size

\* len(range(0, n_events, chunk_size))
NChunks(c) == (c.n_events + c.chunk_size - 1) \div c.chunk_size

Init ==
    /\ cfg \in Configs
    /\ pc = "start"
    /\ chunk_index = 0
    /\ dut_index = 1
    /\ output_files = PerDut(cfg.n_duts, "none")
    /\ hit_tables = PerDut(cfg.n_duts, <<>>)
    /\ chunk = NoChunk
    /\ rng_calls = 0
    /\ n_simulated = 0
    /\ np_random = 0
    /\ instances = NoInstances

\* lines 245-252: create the output files with empty hit tables
OpenFiles ==
    /\ pc = "start"
    /\ output_files' = PerDut(cfg.n_duts, "open")
    /\ hit_tables' = PerDut(cfg.n_duts, <<>>)
    /\ pc' = "chunk"
    /\ UNCHANGED <<np_random, instances, cfg, chunk_index, dut_index, chunk, rng_calls, n_simulated>>

\* lines 254-255 and 394-400: the next chunk calls
\* _create_data(start_event_number = chunk_index * chunk_size, n_events = chunk_size),
\* which draws the number of tracks per event and numbers the events
DrawTracksPerEvent ==
    /\ pc = "chunk"
    /\ chunk_index < NChunks(cfg)
    /\ \E n_tracks_per_event \in [1..cfg.chunk_size -> TrackCounts(cfg)] :
          LET events == [i \in 1..cfg.chunk_size |-> i - 1]
              start_event_number == StartEventNumber(cfg, chunk_index)
              repeated == Repeat(events, n_tracks_per_event)
          IN  chunk' = [NoChunk EXCEPT
                          !.n_tracks_per_event = n_tracks_per_event,
                          !.event_number = [i \in 1..Len(repeated) |->
                                               repeated[i] + start_event_number]]
    /\ rng_calls' = rng_calls + 1
    /\ n_simulated' = n_simulated + cfg.chunk_size
    /\ pc' = "tracks"
    /\ UNCHANGED <<np_random, instances, cfg, chunk_index, dut_index, output_files, hit_tables>>

\* lines 285-286: the ValueError leaves _create_tracks, _create_data and
\* create_data_and_store, which has no handler and no finally
RaiseBeamAngle ==
    /\ pc = "tracks"
    /\ (cfg.beam_angle > Pi_mrad \/ cfg.beam_angle < 0)
    /\ pc' = "raised"
    /\ UNCHANGED <<np_random, instances, cfg, chunk_index, dut_index, output_files, hit_tables, chunk,
                   rng_calls, n_simulated>>

\* the number of np.random.normal calls of lines 288-303
TrackDrawCalls(c) ==
    (IF c.beam_position_sigma[1] # 0 THEN 1 ELSE 0)
    + (IF c.beam_position_sigma[2] # 0 THEN 1 ELSE 0)
    + (IF c.beam_angle_sigma # 0 THEN 1 ELSE 0)

\* lines 288-303: positions and polar angles of n_tracks_per_event.sum() tracks
CreateTracks ==
    /\ pc = "tracks"
    /\ ~(cfg.beam_angle > Pi_mrad \/ cfg.beam_angle < 0)
    /\ LET n_tracks == SumSeq(chunk.n_tracks_per_event)
       IN  \E x \in [1..n_tracks -> TrackPositionsX(cfg)],
              y \in [1..n_tracks -> TrackPositionsY(cfg)],
              theta \in [1..n_tracks -> TrackAnglesTheta(cfg)] :
                chunk' = [chunk EXCEPT !.x = x, !.y = y, !.theta = theta]
    /\ rng_calls' = rng_calls + TrackDrawCalls(cfg)
    /\ pc' = "theta"
    /\ UNCHANGED <<np_random, instances, cfg, chunk_index, dut_index, output_files, hit_tables, n_simulated>>

\* lines 306-308: one round of the loop redraws the angles above pi, then
\* the angles below 0.  The rounds and their draws are counted up to
\* MaxRounds; the loop itself goes on for as long as its condition holds.
ResampleTheta ==
    /\ pc = "theta"
    /\ \E i \in 1..Len(chunk.theta) : ThetaOutOfRange(chunk.theta[i])
    /\ \E r1 \in [1..Len(chunk.theta) -> ThetaRedraws(cfg)],
          r2 \in [1..Len(chunk.theta) -> ThetaRedraws(cfg)] :
          LET t1 == [i \in 1..Len(chunk.theta) |->
                        IF chunk.theta[i] > Pi_mrad THEN r1[i] ELSE chunk.theta[i]]
              t2 == [i \in 1..Len(chunk.theta) |->
                        IF t1[i] < 0 THEN r2[i] ELSE t1[i]]
          IN  chunk' = [chunk EXCEPT !.theta = t2,
                                     !.rounds = IF @ < MaxRounds THEN @ + 1 ELSE @]
    /\ rng_calls' = IF chunk.rounds < MaxRounds THEN rng_calls + 2 ELSE rng_calls
    /\ UNCHANGED <<np_random, instances, cfg, pc, chunk_index, dut_index, output_files, hit_tables, n_simulated>>

\* lines 310-312 and 314-330: phi is drawn and the tracks are intersected
\* with every plane
CreateHitsFromTracks ==
    /\ pc = "theta"
    /\ \A i \in 1..Len(chunk.theta) : ~ThetaOutOfRange(chunk.theta[i])
    /\ \E phi \in [1..Len(chunk.theta) -> PhiDirections] :
          chunk' = [chunk EXCEPT
                      !.hits = [d \in 1..cfg.n_duts |->
                                  [i \in 1..Len(chunk.theta) |->
                                      Intersection(cfg.z_positions[d], chunk.x[i], chunk.y[i],
                                                   chunk.theta[i], phi[i])]]]
    /\ rng_calls' = rng_calls + 1
    /\ dut_index' = 1
    /\ pc' = "digitize"
    /\ UNCHANGED <<np_random, instances, cfg, chunk_index, output_files, hit_tables, n_simulated>>

NoHits == [digits |-> <<>>, events |-> <<>>, oob |-> FALSE]

\* lines 340-367 for one plane: local positions, seed pixels, deposited
\* charge, clusters, and the mask of the hits outside the plane (which is
\* not followed after a write outside the result buffer)
SeedsToMasked(c, d, event_number, dut_hits, grid_index, oob_read) ==
    Let(LocalHits(dut_hits, c.offsets[d]),
        LAMBDA local_hits :
          Let(SeedDigits(local_hits, c.dut_pixel_size[d],
                         [i \in 1..Len(dut_hits) |-> ChargeDeposited(c, d, grid_index[i])]),
              LAMBDA seeds :
                Let(ClusterStage(c, d, event_number, local_hits, seeds, oob_read),
                    LAMBDA clustered :
                      [step |-> "masked",
                       local_hits |-> local_hits,
                       seeds |-> seeds,
                       clustered |-> clustered,
                       masked |-> IF clustered.oob THEN NoHits
                                  ELSE MaskOutside(c, d, clustered),
                       efficient |-> NoHits,
                       noised |-> NoHits,
                       final |-> NoHits])))

\* lines 338-367: one round of the plane loop of _digitize_hits, up to the
\* mask of the hits outside the plane.  The draws are the deposited charges
\* and what a read past the relative_position memory returns.
DigitizeSeeds ==
    /\ pc = "digitize"
    /\ \E grid_index \in [1..Len(chunk.hits[dut_index]) -> ChargeGrid],
          oob_read \in OobReads(cfg, dut_index, chunk.hits[dut_index]) :
          \E stage \in {SeedsToMasked(cfg, dut_index, chunk.event_number,
                                      chunk.hits[dut_index], grid_index, oob_read)} :
              /\ chunk' = [chunk EXCEPT !.stages = Append(@, stage)]
              /\ pc' = IF stage.clustered.oob THEN "corrupt" ELSE "inefficiency"
    /\ rng_calls' = rng_calls + 1
    /\ UNCHANGED <<np_random, instances, cfg, chunk_index, dut_index, output_files, hit_tables, n_simulated>>

\* lines 370-377: the first n_inefficient_hit of the shuffled indices are dropped
DigitizeInefficiency ==
    /\ pc = "inefficiency"
    /\ LET masked == chunk.stages[dut_index].masked
       IN  \E inefficient \in SubsetsOfSize(1..Len(masked.digits),
                  NInefficientHit(Len(masked.digits), cfg.dut_efficiencies[dut_index])) :
             chunk' = [chunk EXCEPT !.stages[dut_index].step = "efficient",
                                    !.stages[dut_index].efficient =
                                        MaskInefficient(masked, inefficient)]
    /\ rng_calls' = rng_calls + 1
    /\ pc' = "noise"
    /\ UNCHANGED <<np_random, instances, cfg, chunk_index, dut_index, output_files, hit_tables, n_simulated>>

\* lines 380-388: noise, threshold, and the plane's results are appended to
\* digitized_hits and event_numbers; after the last plane _create_data returns
DigitizeNoise ==
    /\ pc = "noise"
    /\ LET efficient == chunk.stages[dut_index].efficient
       IN  \E noise \in [1..Len(efficient.digits) -> Normal(0, cfg.dut_noise[dut_index])] :
             chunk' = [chunk EXCEPT
                         !.stages[dut_index].step = "final",
                         !.stages[dut_index].noised = AddNoise(efficient, noise),
                         !.stages[dut_index].final =
                             MaskThreshold(cfg, dut_index, AddNoise(efficient, noise))]
    /\ rng_calls' = rng_calls + 1
    /\ pc' = IF dut_index = cfg.n_duts THEN "append" ELSE "digitize"
    /\ dut_index' = IF dut_index = cfg.n_duts THEN 1 ELSE dut_index + 1
    /\ UNCHANGED <<np_random, instances, cfg, chunk_index, output_files, hit_tables, n_simulated>>

\* lines 258-262: the structured array of one plane; electrons is the float
\* charge the 'charge' field was converted from (not a column of the file)
ActualHits(final, stored) ==
    [i \in 1..Len(final.digits) |->
        [event_number |-> final.events[i],
         frame |-> 0,
         column |-> final.digits[i][1],
         row |-> final.digits[i][2],
         charge |-> stored[i],
         electrons |-> final.digits[i][3]]]

\* the possible contents of the 'charge' column of one plane's array
StoredCharges(final) ==
    {stored \in [1..Len(final.digits) ->
                    UNION {Uint16Cast(final.digits[i][3]) : i \in 1..Len(final.digits)}] :
        \A i \in 1..Len(final.digits) : stored[i] \in Uint16Cast(final.digits[i][3])}

\* lines 256-264: one round of the plane loop appends a plane's hits to its
\* table; after the last plane the chunk loop goes on
AppendDut ==
    /\ pc = "append"
    /\ LET final == chunk.stages[dut_index].final
       IN  \E stored \in StoredCharges(final) :
             hit_tables' = [hit_tables EXCEPT ![dut_index] = @ \o ActualHits(final, stored)]
    /\ IF dut_index = cfg.n_duts
       THEN /\ dut_index' = 1
            /\ chunk_index' = chunk_index + 1
            /\ pc' = "chunk"
       ELSE /\ dut_index' = dut_index + 1
            /\ UNCHANGED <<chunk_index, pc>>
    /\ UNCHANGED <<np_random, instances, cfg, chunk, output_files, rng_calls, n_simulated>>

\* lines 265-268: after the last chunk every output file is closed
CloseFiles ==
    /\ pc = "chunk"
    /\ chunk_index >= NChunks(cfg)
    /\ output_files' = PerDut(cfg.n_duts, "closed")
    /\ pc' = "done"
    /\ UNCHANGED <<np_random, instances, cfg, chunk_index, dut_index, hit_tables, chunk, rng_calls, n_simulated>>

Next ==
    \/ OpenFiles
    \/ DrawTracksPerEvent
    \/ RaiseBeamAngle
    \/ CreateTracks
    \/ ResampleTheta
    \/ CreateHitsFromTracks
    \/ DigitizeSeeds
    \/ DigitizeInefficiency
    \/ DigitizeNoise
    \/ AppendDut
    \/ CloseFiles

Spec == Init /\ [][Next]_vars

\* a round of the resampling loop after which every angle is in range
ResampleInRange ==
    /\ ResampleTheta
    /\ \A i \in 1..Len(chunk'.theta) : ~ThetaOutOfRange(chunk'.theta[i])

\* _create_tracks under fair random draws: the loop runs its next round while
\* its condition holds and is left when it does not, and a redraw that can
\* bring every angle into range again and again does so at some point.
LiveSpec ==
    /\ Spec
    /\ WF_vars(ResampleTheta)
    /\ WF_vars(CreateHitsFromTracks)
    /\ SF_vars(ResampleInRange)

\* ------------------------------------------------- the global generator
\* np.random is one generator per process.  Its state is a number below
\* GenMod that every drawn value advances; a call of size n draws n values.
GenMod == 16
GenMul == 5
GenInc == 3

GenStates == 0..(GenMod - 1)

GenNext(g) == (GenMul * g + GenInc) % GenMod

RECURSIVE GenAfter(_, _)
\* the state after n values were drawn from the state g; it is also the
\* n-th value drawn
GenAfter(g, n) == IF n = 0 THEN g ELSE GenAfter(GenNext(g), n - 1)

\* line 204: np.random.seed(random_seed); None seeds from the system's entropy
SeedStates(random_seed) ==
    IF random_seed = <<>> THEN GenStates ELSE {random_seed[1] % GenMod}

\* the standard deviate behind a drawn value
Deviate(v) == (v % (2 * MaxDev + 1)) - MaxDev

\* np.random.normal(mean, sigma, n) drawn from the state g
NormalValues(mean, sigma, g, n) ==
    [k \in 1..n |-> mean + Deviate(GenAfter(g, k)) * sigma]

\* np.random.random() * 2 pi from a drawn value: one of PhiDirections
PhiValue(v) ==
    IF v % 4 = 0 THEN <<1, 0>>
    ELSE IF v % 4 = 1 THEN <<0, 1>>
    ELSE IF v % 4 = 2 THEN <<0 - 1, 0>>
    ELSE <<0, 0 - 1>>

\* np.random.choice(charge, p=p) from a drawn value: one of ChargeGrid
ChargeGridValue(v) == IF v % 2 = 0 THEN 10 ELSE 99

Swap(a, i, j) == [a EXCEPT ![i] = a[j], ![j] = a[i]]

RECURSIVE ShuffleFrom(_, _, _)
\* np.random.shuffle(a): for i from the last position down to the second,
\* element i is swapped with the element at a drawn position 1..i
ShuffleFrom(a, i, g) ==
    IF i < 2 THEN a
    ELSE ShuffleFrom(Swap(a, i, (GenNext(g) % i) + 1), i - 1, GenNext(g))

\* the number of values np.random.shuffle draws for n elements
ShuffleDraws(n) == IF n > 1 THEN n - 1 ELSE 0

\* ---------------------------------- create_data_and_store as a function
\* The same steps as the actions above, with every draw taken from the
\* generator: each operator maps a generator state g to its results and
\* the generator state it leaves (a set of them where a read or a
\* conversion has no defined result).

\* the position of i among the elements of the index set S
Rank(S, i) == Cardinality({j \in S : j <= i})

RECURSIVE ResampleFrom(_, _, _, _)
\* lines 306-308 from the state g; looping tells that the loop is still
\* running after MaxRounds rounds
ResampleFrom(c, theta, g, rounds) ==
    IF \A i \in 1..Len(theta) : ~ThetaOutOfRange(theta[i])
    THEN [theta |-> theta, g |-> g, looping |-> FALSE]
    ELSE IF rounds = MaxRounds
    THEN [theta |-> theta, g |-> g, looping |-> TRUE]
    ELSE LET above == {i \in 1..Len(theta) : theta[i] > Pi_mrad}
             r1 == NormalValues(1000 * c.beam_angle, 1000 * c.beam_angle_sigma,
                                g, Cardinality(above))
             t1 == [i \in 1..Len(theta) |->
                       IF i \in above THEN r1[Rank(above, i)] ELSE theta[i]]
             g1 == GenAfter(g, Cardinality(above))
             below == {i \in 1..Len(theta) : t1[i] < 0}
             r2 == NormalValues(1000 * c.beam_angle, 1000 * c.beam_angle_sigma,
                                g1, Cardinality(below))
             t2 == [i \in 1..Len(theta) |->
                       IF i \in below THEN r2[Rank(below, i)] ELSE t1[i]]
         IN  ResampleFrom(c, t2, GenAfter(g1, Cardinality(below)), rounds + 1)

\* lines 288-312: _create_tracks(n_tracks) from the state g
TracksFrom(c, n_tracks, g) ==
    LET gx == IF c.beam_position_sigma[1] # 0 THEN GenAfter(g, n_tracks) ELSE g
        gy == IF c.beam_position_sigma[2] # 0 THEN GenAfter(gx, n_tracks) ELSE gx
        gt == IF c.beam_angle_sigma # 0 THEN GenAfter(gy, n_tracks) ELSE gy
        x == IF c.beam_position_sigma[1] # 0
             THEN NormalValues(c.beam_position[1], c.beam_position_sigma[1], g, n_tracks)
             ELSE [k \in 1..n_tracks |-> c.beam_position[1]]
        y == IF c.beam_position_sigma[2] # 0
             THEN NormalValues(c.beam_position[2], c.beam_position_sigma[1], gx, n_tracks)
             ELSE [k \in 1..n_tracks |-> c.beam_position[2]]
        drawn == NormalValues(c.beam_angle, c.beam_angle_sigma, gy, n_tracks)
        theta == IF c.beam_angle_sigma # 0
                 THEN [k \in 1..n_tracks |-> Abs(drawn[k])]
                 ELSE [k \in 1..n_tracks |-> c.beam_angle]
        resampled == ResampleFrom(c, theta, gt, 0)
    IN  [x |-> x, y |-> y, theta |-> resampled.theta, looping |-> resampled.looping,
         phi |-> [k \in 1..n_tracks |-> PhiValue(GenAfter(resampled.g, k))],
         g |-> IF resampled.looping THEN resampled.g
               ELSE GenAfter(resampled.g, n_tracks)]

\* lines 370-388 and 258-262 for plane d from the state g: inefficiency,
\* noise, threshold and the structured array of the plane
DigitizeMasked(c, d, stage, g) ==
    IF stage.clustered.oob
    THEN {[hits |-> <<>>, g |-> g, corrupt |-> TRUE]}
    ELSE LET masked == stage.masked
             m == Len(masked.digits)
             hit_indices == ShuffleFrom([i \in 1..m |-> i], m, g)
             g2 == GenAfter(g, ShuffleDraws(m))
             inefficient == {hit_indices[k] :
                                k \in 1..NInefficientHit(m, c.dut_efficiencies[d])}
             efficient == MaskInefficient(masked, inefficient)
             e == Len(efficient.digits)
             noise == NormalValues(0, c.dut_noise[d], g2, e)
             final == MaskThreshold(c, d, AddNoise(efficient, noise))
         IN  {[hits |-> ActualHits(final, stored), g |-> GenAfter(g2, e),
               corrupt |-> FALSE] : stored \in StoredCharges(final)}

\* lines 340-388 for plane d from the state g
DigitizeDut(c, d, event_number, dut_hits, g) ==
    LET grid_index == [k \in 1..Len(dut_hits) |-> ChargeGridValue(GenAfter(g, k))]
    IN  UNION {DigitizeMasked(c, d,
                              SeedsToMasked(c, d, event_number, dut_hits,
                                            grid_index, oob_read),
                              GenAfter(g, Len(dut_hits))) :
                  oob_read \in OobReads(c, d, dut_hits)}

RECURSIVE DigitizeFrom(_, _, _, _, _)
\* the plane loop of _digitize_hits and of lines 256-263 from plane d on
DigitizeFrom(c, d, event_number, hits, g) ==
    IF d > c.n_duts
    THEN {[hits |-> <<>>, g |-> g, corrupt |-> FALSE]}
    ELSE UNION {IF o.corrupt THEN {o}
                ELSE {[hits |-> <<o.hits>> \o rest.hits, g |-> rest.g,
                       corrupt |-> rest.corrupt] :
                         rest \in DigitizeFrom(c, d + 1, event_number, hits, o.g)} :
                   o \in DigitizeDut(c, d, event_number, hits[d], g)}

\* lines 394-410: _create_data(start_event_number, n_events = chunk_size)
\* from the state g
CreateData(c, start_event_number, g) ==
    LET drawn == NormalValues(c.tracks_per_event, c.tracks_per_event_sigma,
                              g, c.chunk_size)
        n_tracks_per_event == [k \in 1..c.chunk_size |->
                                  IF TruncDiv(drawn[k], 1) < 0 THEN 0
                                  ELSE TruncDiv(drawn[k], 1)]
        g1 == GenAfter(g, c.chunk_size)
        repeated == Repeat([i \in 1..c.chunk_size |-> i - 1], n_tracks_per_event)
        event_number == [i \in 1..Len(repeated) |-> repeated[i] + start_event_number]
        tracks == TracksFrom(c, SumSeq(n_tracks_per_event), g1)
        hits == [d \in 1..c.n_duts |->
                    [i \in 1..Len(tracks.theta) |->
                        Intersection(c.z_positions[d], tracks.x[i], tracks.y[i],
                                     tracks.theta[i], tracks.phi[i])]]
    IN  IF c.beam_angle > Pi_mrad \/ c.beam_angle < 0
        THEN {[status |-> "raised", hits |-> <<>>, g |-> g1]}
        ELSE IF tracks.looping
        THEN {[status |-> "looping", hits |-> <<>>, g |-> tracks.g]}
        ELSE {[status |-> IF o.corrupt THEN "corrupt" ELSE "ok",
               hits |-> o.hits, g |-> o.g] :
                 o \in DigitizeFrom(c, 1, event_number, hits, tracks.g)}

RECURSIVE ChunksFrom(_, _, _, _)
\* lines 254-264: the chunk loop from chunk_index on
ChunksFrom(c, index, tables, g) ==
    IF index >= NChunks(c)
    THEN {[status |-> "done", hit_tables |-> tables, g |-> g]}
    ELSE UNION {IF o.status # "ok"
                THEN {[status |-> o.status, hit_tables |-> tables, g |-> o.g]}
                ELSE ChunksFrom(c, index + 1,
                                [d \in 1..c.n_duts |-> tables[d] \o o.hits[d]], o.g) :
                   o \in CreateData(c, StartEventNumber(c, index), g)}

\* lines 242-268: the possible results of create_data_and_store with the
\* generator at g
CreateDataAndStore(c, g) == ChunksFrom(c, 0, PerDut(c.n_duts, <<>>), g)

\* ------------------------------------------- two objects in one process
\* SimulateData(random_seed) with the seed 0 or 1
Seeds == {<<0>>, <<1>>}

\* One plane, tracks spread over the three columns and rows, a fixed or a
\* spread number of tracks per event, with and without charge sharing,
\* noise and inefficiency; and two planes with an angle spread above pi
PairConfigs ==
    {[Settings(1, 1, 1) EXCEPT !.beam_position_sigma = <<50, 50>>,
                               !.tracks_per_event_sigma = ts,
                               !.digitization_charge_sharing = cs,
                               !.dut_noise = PerDut(1, ne[1]),
                               !.dut_efficiencies = PerDut(1, ne[2])] :
        ts \in {0, 1}, cs \in BOOLEAN, ne \in {<<0, 100>>, <<50, 50>>}}
    \cup {[Settings(2, 1, 1) EXCEPT !.beam_angle_sigma = 4000]}

\* the process before the first object is constructed: the generator is as
\* the import of numpy seeded it
PairInit ==
    /\ cfg \in PairConfigs
    /\ pc = "start"
    /\ chunk_index = 0
    /\ dut_index = 1
    /\ output_files = PerDut(cfg.n_duts, "none")
    /\ hit_tables = PerDut(cfg.n_duts, <<>>)
    /\ chunk = NoChunk
    /\ rng_calls = 0
    /\ n_simulated = 0
    /\ np_random \in SeedStates(<<>>)
    /\ instances = NoInstances

\* lines 203-205: SimulateData(random_seed) seeds the generator of the
\* process; reset() sets the settings, which are those of cfg
Construct(i) ==
    /\ ~instances[i].constructed
    /\ \E random_seed \in Seeds :
          /\ np_random' \in SeedStates(random_seed)
          /\ instances' = [instances EXCEPT ![i].constructed = TRUE,
                                            ![i].random_seed = random_seed]
    /\ UNCHANGED <<cfg, pc, chunk_index, dut_index, output_files, hit_tables, chunk,
                   rng_calls, n_simulated>>

\* lines 242-268: create_data_and_store(base_file_name, n_events, chunk_size)
\* of object i, once per object; its draws advance the generator of the process
Run(i) ==
    /\ instances[i].constructed
    /\ ~instances[i].ran
    /\ \E n_events \in 1..MaxEvents, chunk_size \in 1..MaxEvents :
          \E o \in CreateDataAndStore([cfg EXCEPT !.n_events = n_events,
                                                  !.chunk_size = chunk_size],
                                       np_random) :
              /\ np_random' = o.g
              /\ instances' = [instances EXCEPT
                                 ![i].ran = TRUE,
                                 ![i].n_events = n_events,
                                 ![i].chunk_size = chunk_size,
                                 ![i].started_at = np_random,
                                 ![i].status = o.status,
                                 ![i].hit_tables = o.hit_tables]
    /\ UNCHANGED <<cfg, pc, chunk_index, dut_index, output_files, hit_tables, chunk,
                   rng_calls, n_simulated>>

PairNext ==
    \/ \E i \in 1..2 : Construct(i)
    \/ \E i \in 1..2 : Run(i)

PairSpec == PairInit /\ [][PairNext]_vars

\* ------------------------------------------------------------- properties
Planes == 1..cfg.n_duts

\* the planes digitized so far in the chunk at hand
Digitized == 1..Len(chunk.stages)

\* the (pixel, event number) pairs of a digitization result
Pairs(D) == [i \in 1..Len(D.digits) |-> <<D.digits[i], D.events[i]>>]

Range(a) == {a[i] : i \in 1..Len(a)}

InRange(c, d, digit) ==
    /\ 1 <= digit[1] /\ digit[1] <= c.dut_n_pixel[d][1]
    /\ 1 <= digit[2] /\ digit[2] <= c.dut_n_pixel[d][2]

\* C1: create_data_and_store simulates exactly n_events events for every
\* chunk_size >= 1: when the call is done the events generated in all chunks
\* sum to n_events, and every event_number appended to a plane's table lies
\* in [0, n_events).
C1_ExactEventCount ==
    /\ pc = "done" => n_simulated = cfg.n_events
    /\ \A d \in Planes : \A i \in 1..Len(hit_tables[d]) :
          hit_tables[d][i].event_number \in 0..(cfg.n_events - 1)

\* C2: with charge sharing enabled or disabled, every record of plane d's
\* table has 1 <= column <= dut_n_pixel[d][0] and 1 <= row <= dut_n_pixel[d][1],
\* and the mask keeps exactly the pixels in this range, each with its own
\* event number: a pixel outside is discarded together with its event number.
\* (The mask is followed for the planes whose cluster search returned.)
C2_PixelsInsidePlane ==
    /\ \A d \in Planes : \A i \in 1..Len(hit_tables[d]) :
          InRange(cfg, d, <<hit_tables[d][i].column, hit_tables[d][i].row>>)
    /\ \A d \in Digitized : ~chunk.stages[d].clustered.oob =>
          /\ Len(chunk.stages[d].masked.digits) = Len(chunk.stages[d].masked.events)
          /\ Pairs(chunk.stages[d].masked)
               = SelectSeq(Pairs(chunk.stages[d].clustered),
                           LAMBDA p : InRange(cfg, d, p[1]))

\* a plane with charge sharing whose clusters hold a pixel outside the plane
\* and pixels inside it, which have been appended to the plane's table
C2_OutsidePixelDiscarded ==
    /\ cfg.digitization_charge_sharing
    /\ \E d \in Digitized :
          /\ \E i \in 1..Len(chunk.stages[d].clustered.digits) :
                ~InRange(cfg, d, chunk.stages[d].clustered.digits[i])
          /\ Len(chunk.stages[d].masked.digits) > 0
          /\ Len(hit_tables[d]) > 0

\* C3: every output file opened by create_data_and_store is closed when the
\* call ends, on normal completion and when an exception is raised.
C3_FilesClosedAtEnd ==
    pc \in {"done", "raised"} => \A d \in Planes : output_files[d] # "open"

\* C4: with a mean beam angle outside [0, pi] the run fails before any random
\* number is drawn and before any hit record is appended.
C4_AngleRejectedBeforeDraws ==
    pc = "raised" =>
        /\ rng_calls = 0
        /\ \A d \in Planes : hit_tables[d] = <<>>

\* a plane with a non-positive thickness, pixel pitch or pixel count
NonPositivePlane(c) ==
    \E d \in 1..c.n_duts :
        \/ c.dut_thickness[d] <= 0
        \/ c.dut_pixel_size[d][1] <= 0 \/ c.dut_pixel_size[d][2] <= 0
        \/ c.dut_n_pixel[d][1] <= 0 \/ c.dut_n_pixel[d][2] <= 0

\* C5: a configuration with a non-positive thickness, pixel pitch or pixel
\* count is rejected before any sampling: the run draws no random number,
\* never reaches track sampling and appends no hit record.
C5_NonPositivePlaneRejected ==
    NonPositivePlane(cfg) =>
        /\ rng_calls = 0
        /\ pc \in {"start", "chunk", "raised"}
        /\ \A d \in Planes : hit_tables[d] = <<>>

\* C6: when the diffusion sigma is 0 and charge sharing is enabled, each seed
\* hit inside the plane gives exactly one record, the seed pixel with the
\* full deposited charge, and no neighbour pixel.
C6_SigmaZeroSeedOnly ==
    \A d \in Digitized :
        (/\ cfg.digitization_charge_sharing
         /\ \A i \in 1..Len(chunk.stages[d].seeds) :
               /\ chunk.stages[d].clustered.sigma[i] = 0
               /\ InRange(cfg, d, chunk.stages[d].seeds[i]))
        => /\ chunk.stages[d].clustered.digits = chunk.stages[d].seeds
           /\ chunk.stages[d].clustered.events = chunk.event_number

\* C7: the sigma used to build the clusters is the Einstein diffusion sigma
\* (at half the thickness) multiplied by the configured correction factor
\* digitization_sigma_cc.
C7_SigmaUsesConfiguredFactor ==
    \A d \in Digitized :
        cfg.digitization_charge_sharing =>
            \A i \in 1..Len(chunk.stages[d].seeds) :
                chunk.stages[d].clustered.sigma[i]
                    = ChargeSigma(cfg.dut_thickness[d] \div 2, cfg.temperature,
                                  cfg.dut_bias[d], cfg.digitization_sigma_cc)

\* every hit inside the plane, efficiency 1, every noised charge >= threshold
NothingToDrop(d) ==
    /\ \A i \in 1..Len(chunk.stages[d].seeds) : InRange(cfg, d, chunk.stages[d].seeds[i])
    /\ cfg.dut_efficiencies[d] = 100
    /\ \A i \in 1..Len(chunk.stages[d].noised.digits) :
          chunk.stages[d].noised.digits[i][3] >= cfg.dut_threshold[d]

\* C8: with charge sharing disabled every hit maps to exactly one pixel, its
\* seed pixel with the hit's own event number and its full deposited charge;
\* the records of a plane are never more than the track hits, and as many
\* when every hit is inside the plane, efficiency is 1 and every noised
\* charge is >= threshold.
C8_OnePixelPerHit ==
    ~cfg.digitization_charge_sharing =>
        \A d \in Digitized :
            /\ Len(chunk.stages[d].seeds) = Len(chunk.hits[d])
            /\ chunk.stages[d].clustered.digits = chunk.stages[d].seeds
            /\ chunk.stages[d].clustered.events = chunk.event_number
            /\ chunk.stages[d].step = "final" =>
                  /\ Len(chunk.stages[d].final.digits) <= Len(chunk.hits[d])
                  /\ NothingToDrop(d) =>
                        Len(chunk.stages[d].final.digits) = Len(chunk.hits[d])
            /\ (pc = "chunk" /\ chunk_index = 1) =>
                  /\ Len(hit_tables[d]) <= Len(chunk.hits[d])
                  /\ NothingToDrop(d) => Len(hit_tables[d]) = Len(chunk.hits[d])

\* two hits of a plane without charge sharing, nothing to drop, one of them
\* with a noised charge at the threshold, and both appended to the table
C8_AllHitsRecorded ==
    /\ ~cfg.digitization_charge_sharing
    /\ pc = "chunk" /\ chunk_index = 1
    /\ \E d \in Digitized :
          /\ Len(chunk.hits[d]) = 2
          /\ NothingToDrop(d)
          /\ \E i \in 1..2 : chunk.stages[d].noised.digits[i][3] = cfg.dut_threshold[d]
          /\ Len(hit_tables[d]) = 2

\* C9: the stored 16-bit charge c of every record satisfies
\* 10 * c <= q < 10 * (c + 1) for the hit's final charge q in electrons: it
\* is never a wrapped or a negative-cast value.
C9_ChargeQuantized ==
    \A d \in Planes : \A i \in 1..Len(hit_tables[d]) :
        /\ ChargeLSB * hit_tables[d][i].charge <= hit_tables[d][i].electrons
        /\ hit_tables[d][i].electrons < ChargeLSB * (hit_tables[d][i].charge + 1)

\* C10: for a positive pitch the column and the row of every hit are the
\* 1-based indices of the pixel that contains the local position, also on a
\* pixel boundary: column = floor(x_local / pitch_x) + 1 and
\* row = floor(y_local / pitch_y) + 1.
C10_PixelContainsPosition ==
    \A d \in Digitized :
        (cfg.dut_pixel_size[d][1] > 0 /\ cfg.dut_pixel_size[d][2] > 0) =>
            \A i \in 1..Len(chunk.stages[d].seeds) :
                /\ chunk.stages[d].seeds[i][1]
                     = FloorDiv(chunk.stages[d].local_hits[i][1], cfg.dut_pixel_size[d][1]) + 1
                /\ chunk.stages[d].seeds[i][2]
                     = FloorDiv(chunk.stages[d].local_hits[i][2], cfg.dut_pixel_size[d][2]) + 1

\* C13: every polar angle that _create_tracks returns lies in [0, pi]: once
\* the resampling loop is left, no theta of the chunk is outside [0, pi].
C13_ThetaInRange ==
    pc \notin {"tracks", "theta"} =>
        \A i \in 1..Len(chunk.theta) : 0 <= chunk.theta[i] /\ chunk.theta[i] <= Pi_mrad

\* tracks whose angles were redrawn in the resampling loop have been handed
\* to the plane projection
C13_ResampledTracksProjected ==
    /\ pc = "digitize"
    /\ chunk.rounds > 0
    /\ cfg.beam_angle_sigma > 0
    /\ Len(chunk.theta) > 0

\* C14: with charge sharing the offset handed to the cluster search for the
\* i-th hit of a plane is the (x, y) offset of that same hit from the centre
\* of its own seed pixel, and each component lies in [-pitch/2, +pitch/2].
C14_OwnOffsetHandedOver ==
    \A d \in Digitized :
        (/\ cfg.digitization_charge_sharing
         /\ cfg.dut_pixel_size[d][1] > 0 /\ cfg.dut_pixel_size[d][2] > 0) =>
            \A i \in 1..Len(chunk.stages[d].seeds) :
                /\ chunk.stages[d].clustered.relative_position[i]
                     = RelativePosition(chunk.stages[d].local_hits, chunk.stages[d].seeds,
                                        cfg.dut_pixel_size[d])[i]
                /\ 2 * Abs(chunk.stages[d].clustered.relative_position[i][1])
                     <= cfg.dut_pixel_size[d][1]
                /\ 2 * Abs(chunk.stages[d].clustered.relative_position[i][2])
                     <= cfg.dut_pixel_size[d][2]

\* C15: in _add_charge_sharing_hits no write goes outside the result buffer
\* of 5 rows per seed hit of the chunk: the clusters of a plane are never
\* more than the buffer holds.
C15_WritesInsideBuffer ==
    \A d \in Digitized :
        /\ ~chunk.stages[d].clustered.oob
        /\ cfg.digitization_charge_sharing =>
              SumSeq(chunk.stages[d].clustered.n_hits_per_seed_hit)
                  <= BufferPerSeed * Len(chunk.stages[d].seeds)

RECURSIVE IsSubSeq(_, _)
\* a is b with some elements left out
IsSubSeq(a, b) ==
    IF a = <<>> THEN TRUE
    ELSE IF b = <<>> THEN FALSE
    ELSE IF Head(a) = Head(b) THEN IsSubSeq(Tail(a), Tail(b))
    ELSE IsSubSeq(a, Tail(b))

\* the number of pixels emitted for the seed hits before seed hit i
BlockStart(counts, i) == SumSeq(SubSeq(counts, 1, i - 1))

\* the pixels of digits that were emitted for seed hit i
Block(digits, counts, i) ==
    SubSeq(digits, BlockStart(counts, i) + 1, BlockStart(counts, i) + counts[i])

\* the arguments of the cluster search of seed hit i of plane d, with the
\* offset the search was handed and a buffer that holds every pixel
SeedArguments(d, i) ==
        [relative_position |-> chunk.stages[d].clustered.relative_position[i],
         column |-> chunk.stages[d].seeds[i][1],
         row |-> chunk.stages[d].seeds[i][2],
         charge |-> chunk.stages[d].seeds[i][3],
         max_column |-> cfg.dut_n_pixel[d][1],
         max_row |-> cfg.dut_n_pixel[d][2],
         thickness |-> cfg.dut_thickness[d],
         pixel_size_x |-> cfg.dut_pixel_size[d][1],
         pixel_size_y |-> cfg.dut_pixel_size[d][2],
         temperature |-> cfg.temperature,
         bias |-> cfg.dut_bias[d],
         digitization_sigma_cc |-> CallSigmaCC,
         capacity |-> cfg.dut_n_pixel[d][1] * cfg.dut_n_pixel[d][2] + 1]

\* the cluster search of seed hit i of plane d on its own
ClusterAlone(d, i) ==
    CreateChargeSharingHits(SeedArguments(d, i),
        [total_fraction |-> 0, hits |-> <<>>, index |-> 0, n_hits |-> 0, oob |-> FALSE])

\* the fraction of emitted pixel j of the cluster of seed hit i
EmittedFraction(d, i, j) ==
    CalcChargeFraction(SeedArguments(d, i),
                       ClusterAlone(d, i).hits[j][1] - chunk.stages[d].seeds[i][1],
                       ClusterAlone(d, i).hits[j][2] - chunk.stages[d].seeds[i][2])

\* the fractions of the pixels emitted for seed hit i, in the order of emission
EmittedFractions(d, i) ==
    [j \in 1..Len(ClusterAlone(d, i).hits) |-> EmittedFraction(d, i, j)]

\* C16: in _digitize_hits the event-number array and the hit array of a plane
\* have the same length after every stage, and the event number at index j is
\* the one of the seed hit that produced pixel j: the pixels of seed hit i
\* are the result of its cluster search and all carry its event number, and
\* every later stage keeps pixels together with their event numbers.
C16_EventNumbersFollowPixels ==
    \A d \in Digitized :
        /\ \A D \in {chunk.stages[d].clustered, chunk.stages[d].masked,
                     chunk.stages[d].efficient, chunk.stages[d].noised,
                     chunk.stages[d].final} : Len(D.digits) = Len(D.events)
        /\ Len(chunk.stages[d].seeds) = Len(chunk.event_number)
        /\ cfg.digitization_charge_sharing =>
              /\ Len(chunk.stages[d].clustered.n_hits_per_seed_hit) = Len(chunk.stages[d].seeds)
              /\ Len(chunk.stages[d].clustered.digits)
                    = SumSeq(chunk.stages[d].clustered.n_hits_per_seed_hit)
              /\ \A i \in 1..Len(chunk.stages[d].seeds) :
                    /\ Block(chunk.stages[d].clustered.digits,
                             chunk.stages[d].clustered.n_hits_per_seed_hit, i)
                          = ClusterAlone(d, i).hits
                    /\ \A e \in Range(Block(chunk.stages[d].clustered.events,
                                            chunk.stages[d].clustered.n_hits_per_seed_hit, i)) :
                          e = chunk.event_number[i]
        /\ ~cfg.digitization_charge_sharing =>
              Pairs(chunk.stages[d].clustered)
                  = [i \in 1..Len(chunk.stages[d].seeds) |->
                        <<chunk.stages[d].seeds[i], chunk.event_number[i]>>]
        /\ ~chunk.stages[d].clustered.oob =>
              /\ IsSubSeq(Pairs(chunk.stages[d].masked), Pairs(chunk.stages[d].clustered))
              /\ IsSubSeq(Pairs(chunk.stages[d].efficient), Pairs(chunk.stages[d].masked))
              /\ chunk.stages[d].step = "final" =>
                    /\ chunk.stages[d].noised.events = chunk.stages[d].efficient.events
                    /\ \A j \in 1..Len(chunk.stages[d].noised.digits) :
                          /\ chunk.stages[d].noised.digits[j][1]
                                = chunk.stages[d].efficient.digits[j][1]
                          /\ chunk.stages[d].noised.digits[j][2]
                                = chunk.stages[d].efficient.digits[j][2]
                    /\ IsSubSeq(Pairs(chunk.stages[d].final), Pairs(chunk.stages[d].noised))

\* C17: for each seed hit _create_charge_sharing_hits emits every pixel at
\* most once, the fractions of the emitted pixels sum to at most 1, and the
\* charges of the cluster sum to at most the seed hit's deposited charge.
C17_ClusterWithinSeedCharge ==
    \A d \in Digitized :
        cfg.digitization_charge_sharing =>
            \A i \in 1..Len(chunk.stages[d].seeds) :
                /\ \A j, k \in 1..Len(ClusterAlone(d, i).hits) :
                      (/\ ClusterAlone(d, i).hits[j][1] = ClusterAlone(d, i).hits[k][1]
                       /\ ClusterAlone(d, i).hits[j][2] = ClusterAlone(d, i).hits[k][2])
                      => j = k
                /\ SumSeq(EmittedFractions(d, i)) <= FracOne
                /\ chunk.stages[d].seeds[i][3] >= 0 =>
                      SumSeq([j \in 1..Len(ClusterAlone(d, i).hits) |->
                                 ClusterAlone(d, i).hits[j][3]])
                          <= chunk.stages[d].seeds[i][3]

\* C18: the cluster search of a seed hit stops the moment the accumulated
\* fraction reaches 1 - min_fraction: no pixel is emitted once the fractions
\* of the pixels emitted before it sum to 1 - min_fraction or more, and every
\* emitted pixel has a fraction >= min_fraction.
C18_NothingEmittedAfterTotal ==
    \A d \in Digitized :
        cfg.digitization_charge_sharing =>
            \A i \in 1..Len(chunk.stages[d].seeds) :
                \A j \in 1..Len(ClusterAlone(d, i).hits) :
                    /\ EmittedFraction(d, i, j) >= MinFraction
                    /\ SumSeq(SubSeq(EmittedFractions(d, i), 1, j - 1)) < FracOne - MinFraction

\* C19: with charge sharing and sigma > 0, the cluster of every seed hit
\* whose seed pixel is inside the plane, the last column and the last row
\* included, and whose seed-pixel fraction is >= min_fraction contains the
\* seed pixel itself.
C19_SeedPixelEmitted ==
    \A d \in Digitized :
        cfg.digitization_charge_sharing =>
            \A i \in 1..Len(chunk.stages[d].seeds) :
                (/\ chunk.stages[d].clustered.sigma[i] > 0
                 /\ InRange(cfg, d, chunk.stages[d].seeds[i])
                 /\ CalcChargeFraction(SeedArguments(d, i), 0, 0) >= MinFraction)
                => \E j \in 1..Len(ClusterAlone(d, i).hits) :
                      /\ ClusterAlone(d, i).hits[j][1] = chunk.stages[d].seeds[i][1]
                      /\ ClusterAlone(d, i).hits[j][2] = chunk.stages[d].seeds[i][2]

\* C20: for every valid mean angle and every angle sigma > 0 the resampling
\* loop of _create_tracks is left at some point under fair random draws.
C20_ResamplingTerminates ==
    (pc = "theta" /\ cfg.beam_angle_sigma > 0) ~> (pc # "theta")

\* the objects that ran to the end with an integer seed
Ran == {i \in 1..2 : instances[i].ran /\ instances[i].random_seed # <<>>}

\* object i began its run with the generator as its own seed left it
StartedFromSeed(i) == instances[i].started_at \in SeedStates(instances[i].random_seed)

\* C11: two objects constructed with the same seed and the same settings,
\* each running create_data_and_store once with the same n_events and
\* chunk_size, append the same records to every plane table.
C11_SameSeedSameRecords ==
    \A i \in Ran, j \in Ran :
        (/\ instances[i].random_seed = instances[j].random_seed
         /\ instances[i].n_events = instances[j].n_events
         /\ instances[i].chunk_size = instances[j].chunk_size)
        => /\ instances[i].status = instances[j].status
           /\ instances[i].hit_tables = instances[j].hit_tables

\* C12: for the same seed, settings and n_events, a run whose chunk_size
\* does not divide n_events and a run with chunk_size = n_events, each begun
\* with the generator as seeded and run to the end, write the same number
\* of records to each plane table.
C12_ChunkingKeepsRecordCount ==
    \A i \in Ran, j \in Ran :
        (/\ instances[i].random_seed = instances[j].random_seed
         /\ StartedFromSeed(i) /\ StartedFromSeed(j)
         /\ instances[i].status = "done" /\ instances[j].status = "done"
         /\ instances[i].n_events = instances[j].n_events
         /\ instances[i].n_events % instances[i].chunk_size # 0
         /\ instances[j].chunk_size = instances[j].n_events)
        => \A d \in 1..cfg.n_duts :
              Len(instances[i].hit_tables[d]) = Len(instances[j].hit_tables[d])

\* the values a position drawn around mean with the axis' own sigma can take
AxisPositions(mean, sigma) == IF sigma = 0 THEN {mean} ELSE Normal(mean, sigma)

\* C21: _create_tracks draws x with beam_position_sigma[0] and y with
\* beam_position_sigma[1], each axis on its own: a track's y is
\* beam_position[1] when beam_position_sigma[1] = 0 and beam_position[1] plus
\* a deviate times beam_position_sigma[1] otherwise, and likewise for x.
C21_AxesDrawnIndependently ==
    /\ \A i \in 1..Len(chunk.x) :
          chunk.x[i] \in AxisPositions(cfg.beam_position[1], cfg.beam_position_sigma[1])
    /\ \A i \in 1..Len(chunk.y) :
          chunk.y[i] \in AxisPositions(cfg.beam_position[2], cfg.beam_position_sigma[2])

\* the pixels of a digitization result, without their charges
Pixels(D) == [i \in 1..Len(D.digits) |-> <<D.digits[i][1], D.digits[i][2]>>]

\* C22: for each plane the inefficiency step discards exactly
\* floor((1 - efficiency) * m) of the m hits left by the mask of the hits
\* outside the plane, and nothing else; noise is added to the hits that
\* survived it and to no other, and the threshold cut comes last.
C22_InefficiencyDiscardsFloor ==
    \A d \in Digitized :
        (chunk.stages[d].step # "masked" /\ ~chunk.stages[d].clustered.oob) =>
            /\ Len(chunk.stages[d].efficient.digits)
                 = Len(chunk.stages[d].masked.digits)
                   - ((100 - cfg.dut_efficiencies[d]) * Len(chunk.stages[d].masked.digits))
                        \div 100
            /\ IsSubSeq(Pairs(chunk.stages[d].efficient), Pairs(chunk.stages[d].masked))
            /\ chunk.stages[d].step = "final" =>
                  /\ Pixels(chunk.stages[d].noised) = Pixels(chunk.stages[d].efficient)
                  /\ chunk.stages[d].noised.events = chunk.stages[d].efficient.events
                  /\ IsSubSeq(Pairs(chunk.stages[d].final), Pairs(chunk.stages[d].noised))

\* the event numbers of the chunk at hand start after the events simulated
\* in all chunks before it
ChunkEvents == (n_simulated - cfg.chunk_size)..(n_simulated - 1)

NonDecreasing(a) == \A i \in 1..Len(a) : \A j \in i..Len(a) : a[i] <= a[j]

\* the planes whose table has not received the chunk at hand yet
NotAppended ==
    IF pc \in {"tracks", "theta", "digitize", "inefficiency", "noise", "corrupt", "raised"}
    THEN Planes
    ELSE IF pc = "append" THEN dut_index..cfg.n_duts
    ELSE {}

\* C23: the events of the k-th chunk carry event numbers offset by the
\* number of events simulated in all previous chunks: the event numbers of
\* a chunk, through every digitization stage, lie in the chunk's own range,
\* which begins above every event number written by the chunks before, and
\* in every plane table event_number is non-decreasing in row order.
C23_EventNumbersOffsetPerChunk ==
    /\ pc \notin {"start", "chunk", "done"} =>
          /\ \A i \in 1..Len(chunk.event_number) : chunk.event_number[i] \in ChunkEvents
          /\ \A d \in Digitized :
                /\ Range(chunk.stages[d].clustered.events) \subseteq ChunkEvents
                /\ Range(chunk.stages[d].final.events) \subseteq ChunkEvents
                /\ NonDecreasing(chunk.stages[d].final.events)
    /\ \A d \in NotAppended : \A i \in 1..Len(hit_tables[d]) :
          hit_tables[d][i].event_number < n_simulated - cfg.chunk_size
    /\ \A d \in Planes :
          NonDecreasing([i \in 1..Len(hit_tables[d]) |-> hit_tables[d][i].event_number])

\* a finished run of several chunks with charge sharing whose table holds
\* several records of one event and records of a later chunk
C23_SeveralChunksAppended ==
    /\ pc = "done"
    /\ chunk_index >= 2
    /\ cfg.digitization_charge_sharing
    /\ \E d \in Planes : \E i \in 1..Len(hit_tables[d]) : \E j \in (i + 1)..Len(hit_tables[d]) :
          /\ hit_tables[d][i].event_number = hit_tables[d][j].event_number
          /\ hit_tables[d][j].event_number < hit_tables[d][Len(hit_tables[d])].event_number
====
